---- MODULE Spec2Model ----
(***************************************************************************)
(* A model of app.py: the start-up sequence (connection retry loop,        *)
(* init_db) and the five CRUD handlers of the users table, all of which    *)
(* run their statement on the one module-level psycopg2 connection `conn`. *)
(*                                                                         *)
(* The connection is opened with psycopg2's defaults (autocommit off): the *)
(* first execute() after a commit opens a transaction, a statement that    *)
(* raises leaves that transaction aborted until commit()/rollback() is     *)
(* called, and every execute() on an aborted transaction raises            *)
(* InFailedSqlTransaction.  app.run() serves each request on its own       *)
(* thread, so a handler is modelled by the steps that touch the shared     *)
(* connection: its execute() and, where the code has one, its commit().    *)
(***************************************************************************)
EXTENDS Integers, FiniteSets, TLC

\* Bound of the model: the largest value users_id_seq hands out.
MaxSeq == 2

\* Request threads of the server (app.run serves requests concurrently).
Threads == {"t1", "t2"}

\* Path parameter <int:user_id>.
PathIds == 1 .. MaxSeq

VARIABLES
    pc,         \* position of the module-level start-up code
    dbUp,       \* environment: whether PostgreSQL accepts connections
    conn,       \* the shared connection: "none", "idle", "intrans", "inerror"
    schema,     \* whether init_db has created the users table
    users,      \* the users table as seen through conn: id -> [name, email]
    committed,  \* the users table as of the last commit
    seq,        \* last value handed out by users_id_seq (SERIAL)
    txnStmts,   \* requests with a statement in the open transaction (0, 1, 2 = several)
    th,         \* per request thread: the handler it is in and its locals
    issued,     \* history: ids returned by a 201
    deleted     \* history: ids whose DELETE answered 200

vars == <<pc, dbUp, conn, schema, users, committed, seq, txnStmts, th,
          issued, deleted>>

dbVars == <<users, committed, seq, conn, txnStmts>>
startVars == <<pc, dbUp, schema>>

----------------------------------------------------------------------------
\* JSON values of a request or response body.

JStr(s) == [type |-> "string", val |-> s]
JNum(d) == [type |-> "number", val |-> d]
JNull == [type |-> "null", val |-> ""]
Absent == [type |-> "absent", val |-> ""]

\* request.get_json(): None (a JSON null body) or an object, a key of which
\* may be absent.
NoData == [kind |-> "none", name |-> Absent, email |-> Absent]
Obj(n, e) == [kind |-> "object", name |-> n, email |-> e]

\* Bodies with both fields a string.
ValidBodies ==
    { Obj(JStr("Ada"), JStr("ada@x.com")),
      Obj(JStr("Bob"), JStr("bob@x.com")),
      Obj(JStr("Bob"), JStr("ada@x.com")) }

\* No object, a key absent, a null, a number in place of a string.
MalformedBodies ==
    { NoData,
      Obj(Absent, JStr("ada@x.com")),
      Obj(JStr("Bob"), JNull),
      Obj(JNum("7"), JStr("bob@x.com")) }

Bodies == ValidBodies \cup MalformedBodies

\* data["name"], data["email"]: the exception the subscripts raise, if any.
SubscriptError(data) ==
    IF data.kind = "none" THEN "TypeError"
    ELSE IF data.name = Absent \/ data.email = Absent THEN "KeyError"
    ELSE "none"

\* psycopg2's adaptation of a Python value to an SQL literal, then the
\* assignment to a VARCHAR column: a str as it is, an int as its digits,
\* None as NULL.
SqlNull == "NULL"
Adapt(v) == IF v.type = "null" THEN SqlNull ELSE v.val

----------------------------------------------------------------------------
\* The SQL statements, on a table given as a function id -> [name, email].

NoRows == [i \in {} |-> [name |-> "", email |-> ""]]

\* NextVal with a fault: the id computed from the rows present (MAX(id) + 1).
NextValFromRows(tbl, s) ==
    IF DOMAIN tbl = {} THEN 1
    ELSE (CHOOSE m \in DOMAIN tbl : \A i \in DOMAIN tbl : i <= m) + 1

\* id SERIAL: the id of a new row is nextval('users_id_seq'), whatever the
\* table holds.
NextVal(tbl, s) == s + 1

\* INSERT INTO users (name, email) VALUES (%s, %s)
SqlInsert(tbl, id, name, email) ==
    [i \in DOMAIN tbl \cup {id} |->
        IF i = id THEN [name |-> name, email |-> email] ELSE tbl[i]]

\* SqlUpdate with a fault: the UPDATE without its WHERE clause.
SqlUpdateAllRows(tbl, id, name, email) ==
    [i \in DOMAIN tbl |-> [name |-> name, email |-> email]]

\* UPDATE users SET name=%s, email=%s WHERE id=%s
SqlUpdate(tbl, id, name, email) ==
    [i \in DOMAIN tbl |->
        IF i = id THEN [name |-> name, email |-> email] ELSE tbl[i]]

\* DELETE FROM users WHERE id=%s
SqlDelete(tbl, id) == [i \in DOMAIN tbl \ {id} |-> tbl[i]]

\* The constraints of the table: NOT NULL on name and email, PRIMARY KEY on
\* id, UNIQUE on email.  The error a new row (id, name, email) raises.
ConstraintError(tbl, id, name, email) ==
    IF name = SqlNull \/ email = SqlNull THEN "NotNullViolation"
    ELSE IF \E i \in DOMAIN tbl \ {id} : tbl[i].email = email
         THEN "UniqueViolation"
    ELSE "none"

InsertError(tbl, id, name, email) ==
    IF id \in DOMAIN tbl THEN "UniqueViolation"
    ELSE ConstraintError(tbl, id, name, email)

\* The rows of a SELECT id, name, email, as the dicts jsonify is given.
RowJson(tbl, i) ==
    [id |-> i, name |-> JStr(tbl[i].name), email |-> JStr(tbl[i].email)]
SqlSelectAll(tbl) == {RowJson(tbl, i) : i \in DOMAIN tbl}

----------------------------------------------------------------------------
\* Responses.

NoRowsJson == {}
Response(status, err, rid, rname, remail, msg, rows) ==
    [status |-> status, err |-> err, rid |-> rid, rname |-> rname,
     remail |-> remail, msg |-> msg, rows |-> rows]

\* An exception that leaves the view function: Flask answers 500.
InternalError(err) == Response(500, err, 0, Absent, Absent, "", NoRowsJson)

\* jsonify({"error": "User not found"}), 404
NotFound == Response(404, "none", 0, Absent, Absent, "User not found", NoRowsJson)

\* jsonify({"id": ..., "name": ..., "email": ...})
UserJson(status, rid, rname, remail) ==
    Response(status, "none", rid, rname, remail, "", NoRowsJson)

\* jsonify({"message": f"User {user_id} deleted"})
DeletedJson(id) == Response(200, "none", id, Absent, Absent, "User deleted", NoRowsJson)

\* The locals of a handler between its execute() and its commit().
Idle == [pc |-> "idle", op |-> "none", id |-> 0, data |-> NoData, found |-> FALSE]
Pending(op, id, data, found) ==
    [pc |-> "commit", op |-> op, id |-> id, data |-> data, found |-> found]

----------------------------------------------------------------------------
Init ==
    /\ pc = "connect"
    /\ dbUp \in BOOLEAN
    /\ conn = "none"
    /\ schema = FALSE
    /\ users = NoRows
    /\ committed = NoRows
    /\ seq = 0
    /\ txnStmts = 0
    /\ th = [t \in Threads |-> Idle]
    /\ issued = {}
    /\ deleted = {}

----------------------------------------------------------------------------
\* Start-up: the module-level code that runs before the server accepts requests.

\* The environment: PostgreSQL comes up or goes down while the process starts.
ToggleDb ==
    /\ pc \in {"connect", "sleep", "init_db"}
    /\ dbUp' = ~dbUp
    /\ UNCHANGED <<pc, schema, dbVars, th, issued, deleted>>

\* AfterFailedAttempt with a fault: the except clause re-raises.
AfterFailedAttemptRaise == "crashed"

\* Where the except clause of the retry loop continues: print, time.sleep(2),
\* and the next iteration of while True.
AfterFailedAttempt == "sleep"

\* One iteration of the retry loop: psycopg2.connect(...), break on success.
ConnectAttempt ==
    /\ pc = "connect"
    /\ IF dbUp
       THEN /\ conn' = "idle"
            /\ pc' = "init_db"
       ELSE /\ pc' = AfterFailedAttempt
            /\ UNCHANGED conn
    /\ UNCHANGED <<dbUp, schema, users, committed, seq, txnStmts, th,
                   issued, deleted>>

\* time.sleep(2) returns and the loop starts over.
Sleep ==
    /\ pc = "sleep"
    /\ pc' = "connect"
    /\ UNCHANGED <<dbUp, schema, dbVars, th, issued, deleted>>

\* init_db(): CREATE TABLE IF NOT EXISTS users, commit.  An exception here
\* leaves the module and ends the process.
InitDb ==
    /\ pc = "init_db"
    /\ IF dbUp
       THEN /\ schema' = TRUE
            /\ pc' = "serving"
       ELSE /\ pc' = "crashed"
            /\ UNCHANGED schema
    /\ UNCHANGED <<dbUp, dbVars, th, issued, deleted>>

----------------------------------------------------------------------------
\* The shared connection.

\* One more request has a statement in the open transaction.
Joined(n) == IF n < 2 THEN n + 1 ELSE 2

\* cursor.execute() on the connection as it is: psycopg2 raises when the open
\* transaction is aborted.
ExecuteError == IF conn = "inerror" THEN "InFailedSqlTransaction" ELSE "none"

\* The errors the database raises on a statement.
DbErrors == {"NotNullViolation", "UniqueViolation"}

\* cursor.execute() went through: the statement runs in the open transaction,
\* which execute() begins when there is none.
Executed(tbl) ==
    /\ users' = tbl
    /\ conn' = "intrans"
    /\ txnStmts' = Joined(txnStmts)
    /\ UNCHANGED committed

\* cursor.execute() raised a database error: the server discards the work of
\* the open transaction and refuses statements until it is ended.
Aborted ==
    /\ users' = committed
    /\ conn' = "inerror"
    /\ txnStmts' = Joined(txnStmts)
    /\ UNCHANGED committed

\* conn.commit(): ends the open transaction, making its work durable; ends
\* an aborted one too (the server rolls it back, psycopg2 raises nothing).
Commit ==
    /\ committed' = users
    /\ conn' = "idle"
    /\ txnStmts' = 0
    /\ UNCHANGED <<users, seq>>

\* The exception left the view function before or in execute(): nothing is
\* committed or rolled back, and the thread is free again.
Raised(err) ==
    /\ IF err \in DbErrors THEN Aborted ELSE UNCHANGED <<users, committed, conn, txnStmts>>
    /\ UNCHANGED th

Ready(t) == pc = "serving" /\ th[t].pc = "idle"

----------------------------------------------------------------------------
\* GET /users

get_users_response ==
    IF ExecuteError # "none" THEN InternalError(ExecuteError)
    ELSE Response(200, "none", 0, Absent, Absent, "", SqlSelectAll(users))

get_users(t) ==
    /\ Ready(t)
    /\ IF ExecuteError # "none" THEN Raised(ExecuteError)
       ELSE Executed(users) /\ UNCHANGED th
    /\ UNCHANGED <<startVars, seq, issued, deleted>>

\* GET /users/<int:user_id>

get_user_response(user_id) ==
    IF ExecuteError # "none" THEN InternalError(ExecuteError)
    ELSE IF user_id \in DOMAIN users
    THEN UserJson(200, user_id, JStr(users[user_id].name), JStr(users[user_id].email))
    ELSE NotFound

get_user(t, user_id) ==
    /\ Ready(t)
    /\ IF ExecuteError # "none" THEN Raised(ExecuteError)
       ELSE Executed(users) /\ UNCHANGED th
    /\ UNCHANGED <<startVars, seq, issued, deleted>>

\* POST /users

\* The exception create_user raises up to cur.fetchone(), "none" if none:
\* from the subscripts of data, from execute() on an aborted transaction, or
\* from the INSERT.
create_user_raises(data) ==
    IF SubscriptError(data) # "none" THEN SubscriptError(data)
    ELSE IF ExecuteError # "none" THEN ExecuteError
    ELSE InsertError(users, NextVal(users, seq), Adapt(data.name), Adapt(data.email))

\* Whether create_user sends its INSERT to the server.
create_user_sends(data) == SubscriptError(data) = "none" /\ ExecuteError = "none"

\* Up to cur.fetchone(): get_json, the subscripts, the INSERT.
create_user_execute(t, data) ==
    /\ Ready(t)
    /\ create_user_sends(data) => seq < MaxSeq
    /\ seq' = IF create_user_sends(data) THEN NextVal(users, seq) ELSE seq
    /\ IF create_user_raises(data) # "none"
       THEN Raised(create_user_raises(data))
       ELSE /\ Executed(SqlInsert(users, NextVal(users, seq), Adapt(data.name), Adapt(data.email)))
            /\ th' = [th EXCEPT ![t] = Pending("create", NextVal(users, seq), data, TRUE)]
    /\ UNCHANGED <<startVars, issued, deleted>>

\* jsonify({"id": user_id, "name": data["name"], "email": data["email"]}), 201
create_user_created(user_id, data) == UserJson(201, user_id, data.name, data.email)

\* What a POST /users arriving now is answered when no other handler runs
\* in between.
create_user_answer(data) ==
    IF create_user_raises(data) # "none"
    THEN InternalError(create_user_raises(data))
    ELSE create_user_created(NextVal(users, seq), data)

create_user_response(t) == create_user_created(th[t].id, th[t].data)

\* From conn.commit() to the 201.
create_user_commit(t) ==
    /\ th[t].pc = "commit" /\ th[t].op = "create"
    /\ Commit
    /\ th' = [th EXCEPT ![t] = Idle]
    /\ issued' = issued \cup {create_user_response(t).rid}
    /\ UNCHANGED <<startVars, deleted>>

\* PUT /users/<int:user_id>

update_user_raises(user_id, data) ==
    IF SubscriptError(data) # "none" THEN SubscriptError(data)
    ELSE IF ExecuteError # "none" THEN ExecuteError
    ELSE IF user_id \in DOMAIN users
    THEN ConstraintError(users, user_id, Adapt(data.name), Adapt(data.email))
    ELSE "none"

\* Whether update_user sends its UPDATE to the server.
update_user_sends(data) == SubscriptError(data) = "none" /\ ExecuteError = "none"

\* return jsonify({...}) if updated, else the 404
update_user_returns(user_id, data, updated) ==
    IF updated THEN UserJson(200, user_id, data.name, data.email) ELSE NotFound

\* What a PUT /users/<user_id> arriving now is answered when no other handler
\* runs in between.
update_user_answer(user_id, data) ==
    IF update_user_raises(user_id, data) # "none"
    THEN InternalError(update_user_raises(user_id, data))
    ELSE update_user_returns(user_id, data, user_id \in DOMAIN users)

\* Up to cur.fetchone(): get_json, the subscripts, the UPDATE.
update_user_execute(t, user_id, data) ==
    /\ Ready(t)
    /\ IF update_user_raises(user_id, data) # "none"
       THEN Raised(update_user_raises(user_id, data))
       ELSE /\ Executed(SqlUpdate(users, user_id, Adapt(data.name), Adapt(data.email)))
            /\ th' = [th EXCEPT ![t] =
                         Pending("update", user_id, data, user_id \in DOMAIN users)]
    /\ UNCHANGED <<startVars, seq, issued, deleted>>

update_user_response(t) == update_user_returns(th[t].id, th[t].data, th[t].found)

\* From conn.commit() to the response.
update_user_commit(t) ==
    /\ th[t].pc = "commit" /\ th[t].op = "update"
    /\ Commit
    /\ th' = [th EXCEPT ![t] = Idle]
    /\ UNCHANGED <<startVars, issued, deleted>>

\* DELETE /users/<int:user_id>

delete_user_raises(user_id) == ExecuteError

\* return jsonify({"message": ...}) if deleted, else the 404
delete_user_returns(user_id, was_deleted) ==
    IF was_deleted THEN DeletedJson(user_id) ELSE NotFound

\* What a DELETE /users/<user_id> arriving now is answered when no other
\* handler runs in between.
delete_user_answer(user_id) ==
    IF delete_user_raises(user_id) # "none"
    THEN InternalError(delete_user_raises(user_id))
    ELSE delete_user_returns(user_id, user_id \in DOMAIN users)

\* Up to cur.fetchone(): the DELETE.
delete_user_execute(t, user_id) ==
    /\ Ready(t)
    /\ IF delete_user_raises(user_id) # "none"
       THEN Raised(delete_user_raises(user_id))
       ELSE /\ Executed(SqlDelete(users, user_id))
            /\ th' = [th EXCEPT ![t] =
                         Pending("delete", user_id, NoData, user_id \in DOMAIN users)]
    /\ UNCHANGED <<startVars, seq, issued, deleted>>

delete_user_response(t) == delete_user_returns(th[t].id, th[t].found)

\* From conn.commit() to the response.
delete_user_commit(t) ==
    /\ th[t].pc = "commit" /\ th[t].op = "delete"
    /\ Commit
    /\ th' = [th EXCEPT ![t] = Idle]
    /\ deleted' = IF delete_user_response(t).status = 200
                  THEN deleted \cup {th[t].id} ELSE deleted
    /\ UNCHANGED <<startVars, issued>>

----------------------------------------------------------------------------
Next ==
    \/ ToggleDb
    \/ ConnectAttempt
    \/ Sleep
    \/ InitDb
    \/ \E t \in Threads : get_users(t)
    \/ \E t \in Threads, id \in PathIds : get_user(t, id)
    \/ \E t \in Threads, data \in Bodies : create_user_execute(t, data)
    \/ \E t \in Threads : create_user_commit(t)
    \/ \E t \in Threads, id \in PathIds, data \in Bodies : update_user_execute(t, id, data)
    \/ \E t \in Threads : update_user_commit(t)
    \/ \E t \in Threads, id \in PathIds : delete_user_execute(t, id)
    \/ \E t \in Threads : delete_user_commit(t)

Spec == Init /\ [][Next]_vars

\* The process keeps running: an attempt, the sleep and init_db each finish.
FairSpec ==
    /\ Spec
    /\ WF_vars(ConnectAttempt)
    /\ WF_vars(Sleep)
    /\ WF_vars(InitDb)

----------------------------------------------------------------------------
\* Properties.

Serving == pc = "serving"
AllIdle == \A t \in Threads : th[t].pc = "idle"
EmailStored(data) == \E i \in DOMAIN users : users[i].email = Adapt(data.email)
ClientError(r) == r.status \in 400 .. 499
ListedIds == {r.id : r \in get_users_response.rows}

\* t's handler has just run its statement and goes on to its commit.
Executes(t, op) == th[t].pc = "idle" /\ th'[t].pc = "commit" /\ th'[t].op = op
\* t's handler commits and answers.
Answers(t, op) == th[t].pc = "commit" /\ th[t].op = op /\ th'[t].pc = "idle"

\* C1: a create whose email is that of a stored user, arriving when no other
\* handler is running, is answered with a 4xx and leaves the table as it was.
C1_DuplicateEmailRejected ==
    [][\A t \in Threads, data \in ValidBodies :
          (AllIdle /\ EmailStored(data) /\ create_user_execute(t, data)) =>
              /\ ClientError(create_user_answer(data))
              /\ th'[t].pc = "idle"
              /\ users' = users]_vars

\* C2: in every reachable state and for every body, GET, PUT and DELETE of
\* an id with no row are answered 404 with the error object, and the
\* statement they run leaves the table as it was.
C2_MissingIdIs404 ==
    Serving =>
        \A id \in PathIds \ DOMAIN users :
            /\ get_user_response(id) = NotFound
            /\ delete_user_answer(id) = NotFound
            /\ SqlDelete(users, id) = users
            /\ \A data \in Bodies :
                  /\ update_user_answer(id, data) = NotFound
                  /\ SqlUpdate(users, id, Adapt(data.name), Adapt(data.email)) = users

\* C3: in every reachable state, a create or update with a malformed body is
\* answered with a 4xx and sends no statement to the server.
C3_MalformedRejectedBeforeSql ==
    Serving =>
        \A data \in MalformedBodies :
            /\ ClientError(create_user_answer(data))
            /\ ~create_user_sends(data)
            /\ \A id \in PathIds :
                  /\ ClientError(update_user_answer(id, data))
                  /\ ~update_user_sends(data)

\* C4: the id a create has obtained, and the id a create arriving now would
\* obtain, is the id of no stored user, of no earlier 201 and of no other
\* create in progress, whatever was deleted in between.
C4_IdsNeverReused ==
    /\ \A t \in Threads :
          (th[t].pc = "commit" /\ th[t].op = "create") =>
             /\ create_user_response(t).rid \notin issued
             /\ \A u \in Threads \ {t} :
                   (th[u].pc = "commit" /\ th[u].op = "create") => th[u].id # th[t].id
    /\ \A data \in Bodies :
          create_user_raises(data) = "none" =>
             /\ create_user_answer(data).rid \notin DOMAIN users
             /\ create_user_answer(data).rid \notin issued
             /\ \A u \in Threads :
                   (th[u].pc = "commit" /\ th[u].op = "create") =>
                       th[u].id # create_user_answer(data).rid

C4_Witness ==
    /\ Cardinality(issued) >= 2
    /\ deleted \cap issued # {}
    /\ DOMAIN users # {}

\* C5: when a create with a valid body answers 201 with id i, a GET of i
\* right after it answers 200 with the row of id i (which holds the submitted
\* name and email unless another request has updated it in the meantime),
\* unless another request has deleted that row in the meantime.
C5_CreateThenGet ==
    [][\A t \in Threads, id \in PathIds, data \in ValidBodies :
          (Answers(t, "create") /\ create_user_response(t) = create_user_created(id, data)) =>
              \/ get_user_response(id)' = UserJson(200, id, data.name, data.email)
              \/ get_user_response(id)'.status = 200 /\ get_user_response(id)'.rid = id
              \/ id \in deleted
              \/ \E u \in Threads : th[u].op = "delete" /\ th[u].id = id]_vars

\* C6: the UPDATE of an update that finds its row changes that row's name
\* and email to the submitted values and nothing else in the table (same
\* ids, the other rows as they were); the commit and the 200 that follow
\* leave the table as it is, and the 200 carries the id and the submitted
\* values.
C6_UpdateChangesOnlyItsRow ==
    [][\A t \in Threads :
          /\ (Executes(t, "update") /\ th'[t].found) =>
                /\ DOMAIN users' = DOMAIN users
                /\ th'[t].id \in DOMAIN users
                /\ \A i \in DOMAIN users \ {th'[t].id} : users'[i] = users[i]
                /\ users'[th'[t].id] = [name |-> Adapt(th'[t].data.name),
                                        email |-> Adapt(th'[t].data.email)]
          /\ (Answers(t, "update") /\ th[t].found) =>
                /\ users' = users
                /\ update_user_response(t) =
                      UserJson(200, th[t].id, th[t].data.name, th[t].data.email)]_vars

C6_Witness ==
    \E t \in Threads :
        /\ th[t].pc = "commit" /\ th[t].op = "update" /\ th[t].found
        /\ Cardinality(DOMAIN users) = 2
        /\ th[t].id \in DOMAIN users
        /\ th[t].id \in DOMAIN committed
        /\ users[th[t].id] # committed[th[t].id]

\* C7: once a DELETE of an id has answered 200, a GET of that id arriving
\* when no handler is running answers 404 with the error object, and
\* GET /users answers 200 with a list that does not hold the id.
C7_DeletedStaysGone ==
    (Serving /\ AllIdle) =>
        \A id \in deleted :
            /\ get_user_response(id) = NotFound
            /\ get_users_response.status = 200
            /\ id \notin ListedIds

\* C8: when no handler is running no transaction is open on the connection,
\* and no transaction holds statements of more than one request.
C8_CommitPerRequest ==
    /\ AllIdle => conn \in {"none", "idle"}
    /\ txnStmts <= 1

\* C9: a failed connection attempt is followed by the sleep and the sleep by
\* another attempt; the loop is left only by a successful attempt, to
\* init_db; the schema is initialised and requests are served only on an
\* open connection; and if the database stays reachable from some point on,
\* start-up reaches init_db.
C9_RetryUntilConnected ==
    /\ [][(pc = "connect" /\ ~dbUp /\ pc' # pc) => pc' = "sleep"]_vars
    /\ [][(pc = "sleep" /\ pc' # pc) => pc' = "connect"]_vars
    /\ [][(pc \in {"connect", "sleep"} /\ pc' \notin {"connect", "sleep"}) =>
             (dbUp /\ pc = "connect" /\ pc' = "init_db" /\ conn' = "idle")]_vars
    /\ []((pc \in {"init_db", "serving"} \/ schema \/ ~AllIdle) => conn # "none")
    /\ (<>[]dbUp => <>(pc = "init_db"))

C9_Witness == pc = "sleep" /\ dbUp /\ conn = "none"

\* C10: a request that ends in a database error leaves every answer as it
\* was: each request arriving after it is answered as it would have been
\* answered before it.
C10_ErrorLeavesConnectionUsable ==
    [][(conn # "inerror" /\ conn' = "inerror") =>
          /\ get_users_response' = get_users_response
          /\ \A id \in PathIds :
                /\ get_user_response(id)' = get_user_response(id)
                /\ delete_user_answer(id)' = delete_user_answer(id)
                /\ \A data \in ValidBodies :
                      update_user_answer(id, data)' = update_user_answer(id, data)
          /\ \A data \in ValidBodies :
                create_user_answer(data)'.status = create_user_answer(data).status]_vars

====
